---- MODULE Spec2Model ----
(***************************************************************************)
(* Connection-state machine of the WiFi helper (src/wifi_functions.cpp):   *)
(* the event callback WiFiEvent, the WPS initiator start_WPS, start_WiFi   *)
(* and the status poller WiFiStatusCheck.                                  *)
(*                                                                         *)
(* Each function is one action.  The body of a function is translated to   *)
(* the sequence of its effects in source order (a write of wifi_state, a   *)
(* request to the WiFi subsystem, a delay, a diagnostic); the action       *)
(* applies the whole sequence and records it in stepLog, so that both the  *)
(* result of a call and the order of its effects can be stated.            *)
(***************************************************************************)
EXTENDS Integers, Sequences, FiniteSets

\* ---------------------------------------------------------------- bounds
\* events the subsystem emits in one run
MaxEvents == 2
\* events in flight to the callback at one time
MaxPending == 2
\* calls of start_WiFi in one run
MaxStarts == 1

\* ------------------------------------------------------------ data model
STATE_DISC == 0
STATE_WPS == 1
STATE_CONN == 2
STATE_FAIL == 3

States == {STATE_DISC, STATE_WPS, STATE_CONN, STATE_FAIL}

\* variant: the labels in another order than the enumeration
wifi_state_str_Swapped == <<"disc", "conn", "WPS", "fail">>

\* the label table, indexed by the state value (TLA+ sequences start at 1)
wifi_state_str == <<"disc", "WPS", "conn", "fail">>

StateLabel(s) == wifi_state_str[s + 1]

\* wl_status_t values WiFi.status() can return
WL_NO_SHIELD == "WL_NO_SHIELD"
WL_CONNECTED == "WL_CONNECTED"
WlStatus == {WL_NO_SHIELD, "WL_IDLE_STATUS", WL_CONNECTED, "WL_DISCONNECTED"}

\* the event kinds with a case of their own in WiFiEvent
STA_START == "SYSTEM_EVENT_STA_START"
STA_GOT_IP == "SYSTEM_EVENT_STA_GOT_IP"
STA_DISCONNECTED == "SYSTEM_EVENT_STA_DISCONNECTED"
WPS_ER_SUCCESS == "SYSTEM_EVENT_STA_WPS_ER_SUCCESS"
WPS_ER_FAILED == "SYSTEM_EVENT_STA_WPS_ER_FAILED"
WPS_ER_TIMEOUT == "SYSTEM_EVENT_STA_WPS_ER_TIMEOUT"

WpsOutcomes == {WPS_ER_SUCCESS, WPS_ER_FAILED, WPS_ER_TIMEOUT}

Recognized == {STA_START, STA_GOT_IP, STA_DISCONNECTED} \cup WpsOutcomes

\* event kinds that fall to the default case
OtherEvents == {"SYSTEM_EVENT_STA_CONNECTED"}

Events == Recognized \cup OtherEvents

\* the effects a function body is made of
SetState(s) ==
  CASE s = STATE_DISC -> "wifi_state=STATE_DISC"
    [] s = STATE_WPS -> "wifi_state=STATE_WPS"
    [] s = STATE_CONN -> "wifi_state=STATE_CONN"
    [] s = STATE_FAIL -> "wifi_state=STATE_FAIL"

StateWrites == {SetState(s) : s \in States}

WrittenState(step) == CHOOSE s \in States : SetState(s) = step

\* requests that change what the subsystem does
ControlRequests == {"WiFi.reconnect", "WiFi.begin", "esp_wifi_wps_enable",
                    "esp_wifi_wps_start", "esp_wifi_wps_disable"}

\* the provisioning configuration: zero-initialised static, then filled
EmptyWpsConfig ==
  [wps_type |-> "WPS_TYPE_DISABLE", manufacturer |-> "", model_number |-> "",
   model_name |-> "", device_name |-> ""]

FilledWpsConfig ==
  [wps_type |-> "WPS_TYPE_PBC", manufacturer |-> "ESPRESSIF",
   model_number |-> "ESP32", model_name |-> "ESPRESSIF IOT",
   device_name |-> "ESP STATION"]

\* ----------------------------------------------------------------- state
VARIABLES
  wifi_state,   \* int wifi_state
  last,         \* static wl_status_t last of WiFiStatusCheck
  wps_config,   \* static esp_wps_config_t wps_config
  registered,   \* WiFiEvent is subscribed with the subsystem
  wps_enabled,  \* subsystem: provisioning enabled and not disabled since
  queue,        \* subsystem: events in flight to the callback, oldest first
  nReconnect,   \* subsystem: WiFi.reconnect requests received
  nBegin,       \* subsystem: WiFi.begin requests received
  nDisable,     \* subsystem: esp_wifi_wps_disable requests received
  nLinkLost,    \* link-lost events handled
  nOutcome,     \* provisioning outcome events handled
  nStartWiFi,   \* calls of start_WiFi
  nEmitted,     \* events emitted by the subsystem
  op,           \* the operation that made the last step
  arg,          \* its input: the event handled or emitted, the status read
  pre,          \* wifi_state when that operation was entered
  stepLog,      \* its effects, in the order the code performs them
  sincePoll,    \* "start": no poll yet; "poll": no event handled since the
                \* last poll returned; "event": an event handled since
  reconciled,   \* no event and no start_WPS handled since the poller last
                \* set the state (or since start-up)
  pcPoll,       \* position of a WiFiStatusCheck call run statement by
                \* statement: 0 entered, 1 status read, 2 compared, then one
                \* more for each statement executed
  pcEvent,      \* position of a WiFiEvent call run statement by statement:
                \* 0 not entered, 1 in the switch, then one more for each
                \* statement executed and one for the return
  raceStart     \* wifi_state when the two statement-wise calls began

vars == <<wifi_state, last, wps_config, registered, wps_enabled, queue,
          nReconnect, nBegin, nDisable, nLinkLost, nOutcome, nStartWiFi,
          nEmitted, op, arg, pre, stepLog, sincePoll, reconciled,
          pcPoll, pcEvent, raceStart>>

\* the positions of the statement-wise calls; a whole call leaves them alone
raceVars == <<pcPoll, pcEvent, raceStart>>

\* ------------------------------------------------- effects of a function
Count(steps, x) == Len(SelectSeq(steps, LAMBDA e : e = x))

Has(steps, x) == Count(steps, x) > 0

\* the control requests among the effects, in order
Requests(steps) == SelectSeq(steps, LAMBDA e : e \in ControlRequests)

\* position of the first occurrence of x (0 when absent)
FirstIndex(steps, x) ==
  IF Has(steps, x)
    THEN CHOOSE i \in 1..Len(steps) :
           steps[i] = x /\ \A j \in 1..(i - 1) : steps[j] # x
    ELSE 0

\* wifi_state after the effects have run from wifi_state = s
StateAfter(steps, s) ==
  LET writes == SelectSeq(steps, LAMBDA e : e \in StateWrites)
  IN IF writes = <<>> THEN s ELSE WrittenState(writes[Len(writes)])

\* provisioning enabled after the effects have run
WpsAfter(steps, w) ==
  LET toggles == SelectSeq(steps, LAMBDA e :
                    e \in {"esp_wifi_wps_enable", "esp_wifi_wps_disable"})
  IN IF toggles = <<>> THEN w
     ELSE toggles[Len(toggles)] = "esp_wifi_wps_enable"

\* the subsystem's tallies after the effects have run
Subsystem(steps) ==
  /\ wps_enabled' = WpsAfter(steps, wps_enabled)
  /\ nReconnect' = nReconnect + Count(steps, "WiFi.reconnect")
  /\ nBegin' = nBegin + Count(steps, "WiFi.begin")
  /\ nDisable' = nDisable + Count(steps, "esp_wifi_wps_disable")
  /\ registered' = (registered \/ Has(steps, "WiFi.onEvent"))

\* ------------------------------------------------------------ the code
\* the switch of WiFiEvent, case by case
WiFiEventSwitch(event) ==
  CASE event = STA_START ->
         <<"print", SetState(STATE_DISC)>>
    [] event = STA_GOT_IP ->
         <<"print", "print", SetState(STATE_CONN)>>
    [] event = STA_DISCONNECTED ->
         <<SetState(STATE_DISC), "delay", "print", "WiFi.reconnect">>
    [] event = WPS_ER_SUCCESS ->
         <<"print", "esp_wifi_wps_disable", SetState(STATE_DISC), "delay",
           "WiFi.begin">>
    [] event = WPS_ER_FAILED ->
         <<"print", "esp_wifi_wps_disable", SetState(STATE_DISC), "delay",
           "WiFi.begin">>
    [] event = WPS_ER_TIMEOUT ->
         <<"print", SetState(STATE_DISC), "esp_wifi_wps_disable",
           SetState(STATE_DISC), "delay", "WiFi.begin">>
    [] OTHER -> <<>>

\* variant: link loss only records the state and never asks for a reconnect
WiFiEvent_NoReconnect(event) ==
  IF event = STA_DISCONNECTED
    THEN <<SetState(STATE_DISC), "delay", "print">>
    ELSE WiFiEventSwitch(event)

\* variant: a failed provisioning retries with reconnect instead of begin
WiFiEvent_FailedReconnects(event) ==
  IF event = WPS_ER_FAILED
    THEN <<"print", "esp_wifi_wps_disable", SetState(STATE_DISC), "delay",
           "WiFi.reconnect">>
    ELSE WiFiEventSwitch(event)

\* variant: the address-acquired case carries the state of the case above it
WiFiEvent_GotIpDisc(event) ==
  IF event = STA_GOT_IP
    THEN <<"print", "print", SetState(STATE_DISC)>>
    ELSE WiFiEventSwitch(event)

\* variant: the default case resets the state
WiFiEvent_DefaultResets(event) ==
  IF event \in Recognized
    THEN WiFiEventSwitch(event)
    ELSE <<SetState(STATE_DISC)>>

\* variant: a failed provisioning is reported as STATE_FAIL
WiFiEvent_FailedFails(event) ==
  IF event = WPS_ER_FAILED
    THEN <<"print", "esp_wifi_wps_disable", SetState(STATE_FAIL), "delay",
           "WiFi.begin">>
    ELSE WiFiEventSwitch(event)

\* variant: a provisioning timeout only records the state
WiFiEvent_TimeoutGivesUp(event) ==
  IF event = WPS_ER_TIMEOUT
    THEN <<"print", SetState(STATE_DISC)>>
    ELSE WiFiEventSwitch(event)

\* variant: link loss asks for the reconnect before anything else
WiFiEvent_ReconnectFirst(event) ==
  IF event = STA_DISCONNECTED
    THEN <<"WiFi.reconnect", SetState(STATE_DISC), "delay", "print">>
    ELSE WiFiEventSwitch(event)

\* variant: the address-acquired case starts another connection attempt
WiFiEvent_GotIpBegins(event) ==
  IF event = STA_GOT_IP
    THEN <<"print", "print", SetState(STATE_CONN), "WiFi.begin">>
    ELSE WiFiEventSwitch(event)

\* variant: the interface-started case only prints
WiFiEvent_StartKeepsState(event) ==
  IF event = STA_START
    THEN <<"print">>
    ELSE WiFiEventSwitch(event)

\* variant: the success case disables provisioning but keeps the state
WiFiEvent_SuccessKeepsState(event) ==
  IF event = WPS_ER_SUCCESS
    THEN <<"print", "esp_wifi_wps_disable", "delay", "WiFi.begin">>
    ELSE WiFiEventSwitch(event)

\* void WiFiEvent(WiFiEvent_t event)
WiFiEventSteps(event) == WiFiEventSwitch(event)

\* variant: the state is set only once provisioning has been started
start_WPS_StateLast ==
  <<"print", "WiFi.mode(WIFI_MODE_STA)", "wps_config=",
    "esp_wifi_wps_enable", "esp_wifi_wps_start", SetState(STATE_WPS),
    "print">>

\* variant: start_WPS forgets to record the state
start_WPS_NoState ==
  <<"print", "WiFi.mode(WIFI_MODE_STA)", "wps_config=",
    "esp_wifi_wps_enable", "esp_wifi_wps_start", "print">>

\* void start_WPS()
start_WPS_Steps ==
  <<"print", SetState(STATE_WPS), "WiFi.mode(WIFI_MODE_STA)",
    "wps_config=", "esp_wifi_wps_enable", "esp_wifi_wps_start", "print">>

\* variant: start_WiFi resets the state before it connects
start_WiFi_Resets == <<SetState(STATE_DISC), "WiFi.onEvent", "WiFi.begin">>

\* variant: the connection attempt is issued before the callback is set
start_WiFi_BeginFirst == <<"WiFi.begin", "WiFi.onEvent">>

\* void start_WiFi()
start_WiFi_Steps == <<"WiFi.onEvent", "WiFi.begin">>

\* variant: no early return when the status is unchanged
WiFiStatusCheck_NoEarlyReturn(now, cached) ==
  <<"print",
    IF now = WL_CONNECTED THEN SetState(STATE_CONN)
                          ELSE SetState(STATE_DISC),
    "last=now">>

\* variant: the cached status is never updated
WiFiStatusCheck_StaleCache(now, cached) ==
  IF now = cached
    THEN <<>>
    ELSE <<"print",
           IF now = WL_CONNECTED THEN SetState(STATE_CONN)
                                 ELSE SetState(STATE_DISC)>>

\* variant: the poller only ever raises the state to Connected
WiFiStatusCheck_OnlyConnects(now, cached) ==
  IF now = cached
    THEN <<>>
    ELSE IF now = WL_CONNECTED
           THEN <<"print", SetState(STATE_CONN), "last=now">>
           ELSE <<"print", "last=now">>

\* variant: the status is cached before it is compared
WiFiStatusCheck_CacheFirst(now, cached) ==
  IF now = cached THEN <<>> ELSE <<"last=now">>

\* void WiFiStatusCheck(), having read now = WiFi.status()
WiFiStatusCheckSteps(now, cached) ==
  IF now = cached
    THEN <<>>
    ELSE <<"print",
           IF now = WL_CONNECTED THEN SetState(STATE_CONN)
                                 ELSE SetState(STATE_DISC),
           "last=now">>

\* ------------------------------------------------------------- actions
Init ==
  /\ wifi_state = STATE_DISC
  /\ last = WL_NO_SHIELD
  /\ wps_config = EmptyWpsConfig
  /\ registered = FALSE
  /\ wps_enabled = FALSE
  /\ queue = <<>>
  /\ nReconnect = 0
  /\ nBegin = 0
  /\ nDisable = 0
  /\ nLinkLost = 0
  /\ nOutcome = 0
  /\ nStartWiFi = 0
  /\ nEmitted = 0
  /\ op = "init"
  /\ arg = "none"
  /\ pre = STATE_DISC
  /\ stepLog = <<>>
  /\ sincePoll = "start"
  /\ reconciled = TRUE
  /\ pcPoll = 0
  /\ pcEvent = 0
  /\ raceStart = STATE_DISC

\* the subsystem has an event for the subscribed callback
Emit(event) ==
  /\ registered
  /\ nEmitted < MaxEvents
  /\ Len(queue) < MaxPending
  /\ queue' = Append(queue, event)
  /\ nEmitted' = nEmitted + 1
  /\ op' = "emit"
  /\ UNCHANGED raceVars
  /\ arg' = event
  /\ pre' = wifi_state
  /\ stepLog' = <<>>
  /\ UNCHANGED <<wifi_state, last, wps_config, registered, wps_enabled,
                 nReconnect, nBegin, nDisable, nLinkLost, nOutcome,
                 nStartWiFi, sincePoll, reconciled>>

\* the subsystem calls WiFiEvent with the oldest event in flight
WiFiEvent ==
  /\ queue # <<>>
  /\ LET event == Head(queue)
         steps == WiFiEventSteps(event)
     IN /\ wifi_state' = StateAfter(steps, wifi_state)
        /\ Subsystem(steps)
        /\ nLinkLost' = nLinkLost + (IF event = STA_DISCONNECTED THEN 1 ELSE 0)
        /\ nOutcome' = nOutcome + (IF event \in WpsOutcomes THEN 1 ELSE 0)
        /\ op' = "WiFiEvent"
        /\ UNCHANGED raceVars
        /\ arg' = event
        /\ stepLog' = steps
  /\ queue' = Tail(queue)
  /\ pre' = wifi_state
  /\ sincePoll' = (IF sincePoll = "start" THEN "start" ELSE "event")
  /\ reconciled' = FALSE
  /\ UNCHANGED <<last, wps_config, nStartWiFi, nEmitted>>

start_WPS ==
  /\ wifi_state' = StateAfter(start_WPS_Steps, wifi_state)
  /\ wps_config' = IF Has(start_WPS_Steps, "wps_config=")
                     THEN FilledWpsConfig ELSE wps_config
  /\ Subsystem(start_WPS_Steps)
  /\ op' = "start_WPS"
  /\ UNCHANGED raceVars
  /\ arg' = "none"
  /\ pre' = wifi_state
  /\ stepLog' = start_WPS_Steps
  /\ reconciled' = FALSE
  /\ UNCHANGED <<last, queue, nLinkLost, nOutcome, nStartWiFi, nEmitted,
                 sincePoll>>

start_WiFi ==
  /\ nStartWiFi < MaxStarts
  /\ nStartWiFi' = nStartWiFi + 1
  /\ wifi_state' = StateAfter(start_WiFi_Steps, wifi_state)
  /\ Subsystem(start_WiFi_Steps)
  /\ op' = "start_WiFi"
  /\ UNCHANGED raceVars
  /\ arg' = "none"
  /\ pre' = wifi_state
  /\ stepLog' = start_WiFi_Steps
  /\ UNCHANGED <<last, wps_config, queue, nLinkLost, nOutcome, nEmitted,
                 sincePoll, reconciled>>

WiFiStatusCheck(now) ==
  LET steps == WiFiStatusCheckSteps(now, last)
  IN /\ wifi_state' = StateAfter(steps, wifi_state)
     /\ last' = IF Has(steps, "last=now") THEN now ELSE last
     /\ op' = "WiFiStatusCheck"
     /\ UNCHANGED raceVars
     /\ arg' = now
     /\ pre' = wifi_state
     /\ stepLog' = steps
     /\ sincePoll' = "poll"
     /\ reconciled' = (reconciled \/ StateAfter(steps, STATE_FAIL) # STATE_FAIL)
     /\ UNCHANGED <<wps_config, registered, wps_enabled, queue, nReconnect,
                    nBegin, nDisable, nLinkLost, nOutcome, nStartWiFi,
                    nEmitted>>

Next ==
  \/ \E event \in Events : Emit(event)
  \/ WiFiEvent
  \/ start_WPS
  \/ start_WiFi
  \/ \E now \in WlStatus : WiFiStatusCheck(now)

Spec == Init /\ [][Next]_vars

\* ------------------------------------ one poll against one event handler
\* one statement executed on its own, its store to wifi_state atomic
Exec(step) ==
  /\ wifi_state' = StateAfter(<<step>>, wifi_state)
  /\ last' = (IF step = "last=now" THEN arg ELSE last)
  /\ Subsystem(<<step>>)

\* the event handed to the callback
RaceEventKind == Head(queue)

\* WiFiStatusCheck is in the host's loop and WiFiEvent in the subsystem's
\* context, each about to run once, from any state the program can be in
RaceInit ==
  /\ wifi_state \in {STATE_DISC, STATE_WPS, STATE_CONN}
  /\ last \in WlStatus
  /\ wps_enabled \in BOOLEAN
  /\ wifi_state = STATE_WPS => wps_enabled
  /\ wps_config = (IF wps_enabled THEN FilledWpsConfig ELSE EmptyWpsConfig)
  /\ registered = TRUE
  /\ \E event \in Events : queue = <<event>>
  /\ nReconnect = 0
  /\ nBegin = 1
  /\ nDisable = 0
  /\ nLinkLost = 0
  /\ nOutcome = 0
  /\ nStartWiFi = 1
  /\ nEmitted = 1
  /\ op = "race"
  /\ arg = "none"
  /\ pre = wifi_state
  /\ stepLog = <<>>
  /\ sincePoll = "start"
  /\ reconciled = FALSE
  /\ pcPoll = 0
  /\ pcEvent = 0
  /\ raceStart = wifi_state

\* wl_status_t now = WiFi.status();
RacePollRead ==
  /\ pcPoll = 0
  /\ \E now \in WlStatus : arg' = now
  /\ pcPoll' = 1
  /\ UNCHANGED <<wifi_state, last, wps_config, registered, wps_enabled,
                 queue, nReconnect, nBegin, nDisable, nLinkLost, nOutcome,
                 nStartWiFi, nEmitted, op, pre, stepLog, sincePoll,
                 reconciled, pcEvent, raceStart>>

\* if (now == last) return;
RacePollCompare ==
  /\ pcPoll = 1
  /\ stepLog' = WiFiStatusCheckSteps(arg, last)
  /\ pcPoll' = 2
  /\ UNCHANGED <<wifi_state, last, wps_config, registered, wps_enabled,
                 queue, nReconnect, nBegin, nDisable, nLinkLost, nOutcome,
                 nStartWiFi, nEmitted, op, arg, pre, sincePoll, reconciled,
                 pcEvent, raceStart>>

\* the next statement of WiFiStatusCheck after the comparison
RacePollStep ==
  /\ pcPoll >= 2
  /\ pcPoll - 1 <= Len(stepLog)
  /\ Exec(stepLog[pcPoll - 1])
  /\ pcPoll' = pcPoll + 1
  /\ UNCHANGED <<wps_config, queue, nLinkLost, nOutcome, nStartWiFi,
                 nEmitted, op, arg, pre, stepLog, sincePoll, reconciled,
                 pcEvent, raceStart>>

\* variant: the callback works on a copy of the state taken on entry and
\* stores the copy back when it returns
RaceEvent_CopyInOut ==
  LET steps == WiFiEventSteps(RaceEventKind)
  IN \/ /\ pcEvent = 0
        /\ pre' = wifi_state
        /\ pcEvent' = 1
        /\ UNCHANGED <<wifi_state, last, wps_config, registered,
                       wps_enabled, queue, nReconnect, nBegin, nDisable,
                       nLinkLost, nOutcome, nStartWiFi, nEmitted, op, arg,
                       stepLog, sincePoll, reconciled, pcPoll, raceStart>>
     \/ /\ pcEvent >= 1
        /\ pcEvent <= Len(steps)
        /\ Exec(steps[pcEvent])
        /\ pcEvent' = pcEvent + 1
        /\ UNCHANGED <<wps_config, queue, nLinkLost, nOutcome, nStartWiFi,
                       nEmitted, op, arg, pre, stepLog, sincePoll,
                       reconciled, pcPoll, raceStart>>
     \/ /\ pcEvent = Len(steps) + 1
        /\ wifi_state' = StateAfter(steps, pre)
        /\ pcEvent' = pcEvent + 1
        /\ UNCHANGED <<last, wps_config, registered, wps_enabled, queue,
                       nReconnect, nBegin, nDisable, nLinkLost, nOutcome,
                       nStartWiFi, nEmitted, op, arg, pre, stepLog,
                       sincePoll, reconciled, pcPoll, raceStart>>

\* WiFiEvent statement by statement: the switch on the event, the
\* statements of its case, the return
RaceEvent ==
  LET steps == WiFiEventSteps(RaceEventKind)
  IN \/ /\ pcEvent = 0
        /\ pre' = wifi_state
        /\ pcEvent' = 1
        /\ UNCHANGED <<wifi_state, last, wps_config, registered,
                       wps_enabled, queue, nReconnect, nBegin, nDisable,
                       nLinkLost, nOutcome, nStartWiFi, nEmitted, op, arg,
                       stepLog, sincePoll, reconciled, pcPoll, raceStart>>
     \/ /\ pcEvent >= 1
        /\ pcEvent <= Len(steps)
        /\ Exec(steps[pcEvent])
        /\ pcEvent' = pcEvent + 1
        /\ UNCHANGED <<wps_config, queue, nLinkLost, nOutcome, nStartWiFi,
                       nEmitted, op, arg, pre, stepLog, sincePoll,
                       reconciled, pcPoll, raceStart>>
     \/ /\ pcEvent = Len(steps) + 1
        /\ pcEvent' = pcEvent + 1
        /\ UNCHANGED <<wifi_state, last, wps_config, registered,
                       wps_enabled, queue, nReconnect, nBegin, nDisable,
                       nLinkLost, nOutcome, nStartWiFi, nEmitted, op, arg,
                       pre, stepLog, sincePoll, reconciled, pcPoll,
                       raceStart>>

RaceNext ==
  \/ RacePollRead
  \/ RacePollCompare
  \/ RacePollStep
  \/ RaceEvent

RaceSpec == RaceInit /\ [][RaceNext]_vars

\* both calls have returned
RaceDone ==
  /\ pcPoll = Len(stepLog) + 2
  /\ pcEvent = Len(WiFiEventSteps(RaceEventKind)) + 2

\* the subsystem's dispatcher calls the callback for every event in flight
FairSpec == Spec /\ WF_vars(WiFiEvent)

TypeOK ==
  /\ wifi_state \in States
  /\ last \in WlStatus
  /\ wps_config \in {EmptyWpsConfig, FilledWpsConfig}
  /\ registered \in BOOLEAN
  /\ wps_enabled \in BOOLEAN
  /\ Len(queue) <= MaxPending
  /\ nEmitted \in 0..MaxEvents
  /\ nStartWiFi \in 0..MaxStarts
  /\ sincePoll \in {"start", "poll", "event"}
  /\ reconciled \in BOOLEAN
  /\ pcPoll \in 0..5
  /\ pcEvent \in 0..8
  /\ raceStart \in States
\* ------------------------------------------------------------ properties
\* a step made by the callback for an event of the given kinds
Handled(kinds) == op' = "WiFiEvent" /\ arg' \in kinds

NoSubsystemChange ==
  UNCHANGED <<wps_enabled, nReconnect, nBegin, nDisable, registered>>

\* C1: handling a link-lost event, from any state, leaves the state
\* Disconnected and issues exactly one reconnect request and no begin,
\* provisioning-enable, -start or -disable request.
C1_LinkLost ==
  [][Handled({STA_DISCONNECTED}) =>
       /\ wifi_state' = STATE_DISC
       /\ Requests(stepLog') = <<"WiFi.reconnect">>
       /\ nReconnect' = nReconnect + 1
       /\ UNCHANGED <<nBegin, nDisable, wps_enabled>>]_vars

C1_Witness ==
  /\ op = "WiFiEvent" /\ arg = STA_DISCONNECTED
  /\ pre = STATE_CONN /\ wifi_state = STATE_DISC
  /\ nReconnect = 1

\* C2: handling any of the three provisioning outcome events, from any
\* state, leaves the state Disconnected, disables provisioning exactly once,
\* issues exactly one begin-connection request and no reconnect request.
C2_WpsOutcome ==
  [][Handled(WpsOutcomes) =>
       /\ wifi_state' = STATE_DISC
       /\ Count(stepLog', "esp_wifi_wps_disable") = 1
       /\ Count(stepLog', "WiFi.begin") = 1
       /\ Count(stepLog', "WiFi.reconnect") = 0
       /\ nDisable' = nDisable + 1
       /\ nBegin' = nBegin + 1
       /\ nReconnect' = nReconnect
       /\ ~wps_enabled']_vars

C2_Witness ==
  /\ op = "WiFiEvent" /\ arg = WPS_ER_TIMEOUT
  /\ pre = STATE_WPS /\ wifi_state = STATE_DISC
  /\ nDisable = 1

\* C3: whenever address-acquired is the event just handled, from any prior
\* state including Provisioning, the state is Connected.
C3_GotIp ==
  (op = "WiFiEvent" /\ arg = STA_GOT_IP) => wifi_state = STATE_CONN

C3_Witness ==
  /\ op = "WiFiEvent" /\ arg = STA_GOT_IP
  /\ pre = STATE_WPS /\ wifi_state = STATE_CONN

\* C4: handling an event kind without a case of its own changes neither the
\* state nor the poller's cached status and issues no subsystem request.
C4_Unrecognized ==
  [][Handled(Events \ Recognized) =>
       /\ UNCHANGED <<wifi_state, last, wps_config>>
       /\ Requests(stepLog') = <<>>
       /\ NoSubsystemChange]_vars

C4_Witness ==
  /\ op = "WiFiEvent" /\ arg \in OtherEvents
  /\ pre = STATE_WPS /\ wifi_state = STATE_WPS
  /\ wps_enabled

\* C5: a poll that reads the status it has cached has no effect: no
\* diagnostic, no change of the state or of the cache; so the second of two
\* successive polls reading the same status has none.
C5_PollUnchanged ==
  [][/\ (op' = "WiFiStatusCheck" /\ arg' = last) =>
          (UNCHANGED <<wifi_state, last>> /\ stepLog' = <<>>)
     /\ (op = "WiFiStatusCheck" /\ op' = "WiFiStatusCheck" /\ arg' = arg) =>
          (UNCHANGED <<wifi_state, last>> /\ stepLog' = <<>>)]_vars

C5_Witness ==
  /\ op = "WiFiStatusCheck" /\ arg = WL_CONNECTED /\ last = WL_CONNECTED
  /\ stepLog = <<>>
  /\ pre = STATE_WPS /\ wifi_state = STATE_WPS

\* C6: a poll that reads a status different from the cached one leaves the
\* state Connected if the status is WL_CONNECTED and Disconnected otherwise,
\* whatever the state was, and caches the status read.
C6_PollChanged ==
  [][(op' = "WiFiStatusCheck" /\ arg' # last) =>
       /\ wifi_state' = (IF arg' = WL_CONNECTED THEN STATE_CONN
                                                ELSE STATE_DISC)
       /\ last' = arg']_vars

C6_Witness ==
  /\ op = "WiFiStatusCheck" /\ arg = "WL_DISCONNECTED"
  /\ Has(stepLog, "last=now") /\ last = "WL_DISCONNECTED"
  /\ pre = STATE_CONN /\ wifi_state = STATE_DISC

\* C7: the state is never Failed: it is always one of Disconnected,
\* Provisioning and Connected.
C7_NeverFailed ==
  /\ wifi_state # STATE_FAIL
  /\ wifi_state \in {STATE_DISC, STATE_WPS, STATE_CONN}

C7_Witness ==
  /\ op = "WiFiEvent" /\ arg = STA_DISCONNECTED
  /\ nLinkLost >= 2
  /\ wifi_state = STATE_DISC

\* C8: start_WPS sets the state to Provisioning, then requests station mode,
\* then fills the configuration, then issues one provisioning-enable and
\* then one provisioning-start, no begin or reconnect, and does not wait;
\* the state on return is Provisioning.
C8_StartWps ==
  [][op' = "start_WPS" =>
       /\ SelectSeq(stepLog', LAMBDA e : e # "print") =
            <<SetState(STATE_WPS), "WiFi.mode(WIFI_MODE_STA)", "wps_config=",
              "esp_wifi_wps_enable", "esp_wifi_wps_start">>
       /\ wifi_state' = STATE_WPS
       /\ wps_config' = FilledWpsConfig
       /\ wps_enabled'
       /\ UNCHANGED <<nBegin, nReconnect, nDisable>>]_vars

C8_Witness ==
  /\ op = "start_WPS"
  /\ pre = STATE_CONN /\ wifi_state = STATE_WPS
  /\ wps_config = FilledWpsConfig

\* a step that writes wifi_state, whether or not the value changes
WritesState == SelectSeq(stepLog', LAMBDA e : e \in StateWrites) # <<>>

\* C9 as stated: only WiFiEvent and WiFiStatusCheck write the state.
C9_Original ==
  [][(wifi_state' # wifi_state \/ WritesState) =>
       op' \in {"WiFiEvent", "WiFiStatusCheck"}]_vars

\* C9 as amended: the state is written only by WiFiEvent, WiFiStatusCheck
\* and start_WPS, and start_WPS writes only Provisioning; start_WiFi does
\* not write it.
C9_Amended ==
  [][/\ (wifi_state' # wifi_state \/ WritesState) =>
          op' \in {"WiFiEvent", "WiFiStatusCheck", "start_WPS"}
     /\ (op' = "start_WPS" /\ wifi_state' # wifi_state) =>
          wifi_state' = STATE_WPS
     /\ op' = "start_WiFi" => wifi_state' = wifi_state]_vars

C9_Witness ==
  /\ op = "start_WiFi"
  /\ pre = STATE_CONN /\ wifi_state = STATE_CONN

OutcomeInFlight == \E i \in 1..Len(queue) : queue[i] \in WpsOutcomes

\* C10: once provisioning is enabled and an outcome event is in flight, the
\* callback eventually handles it, leaving provisioning disabled, the state
\* Disconnected and a begin-connection request issued; and nothing but the
\* handling of an outcome event ends the attempt.
C10_ProvisioningEnds ==
  /\ (wps_enabled /\ OutcomeInFlight) ~>
       (/\ op = "WiFiEvent" /\ arg \in WpsOutcomes
        /\ ~wps_enabled
        /\ wifi_state = STATE_DISC
        /\ Has(stepLog, "WiFi.begin"))
  /\ [][(wps_enabled /\ ~wps_enabled') => Handled(WpsOutcomes)]_vars

C10_Witness ==
  /\ op = "WiFiEvent" /\ arg = WPS_ER_SUCCESS
  /\ pre = STATE_WPS /\ wifi_state = STATE_DISC
  /\ ~wps_enabled /\ nBegin = 2
\* the state agrees with the raw status the poll has just read
AgreesWithRaw(state, now) == (state = STATE_CONN) <=> (now = WL_CONNECTED)

\* C11 as stated: a poll with no event handled since the previous poll
\* returned leaves the state Connected exactly when the status it read is
\* WL_CONNECTED.
C11_Original ==
  [][(op' = "WiFiStatusCheck" /\ sincePoll = "poll") =>
       AgreesWithRaw(wifi_state', arg')]_vars

\* C11 as amended: when a poll returns and no event and no start_WPS has
\* been handled since the poller last set the state (or since start-up),
\* the state is Connected exactly when the status read is WL_CONNECTED.
C11_Amended ==
  (op = "WiFiStatusCheck" /\ reconciled) => AgreesWithRaw(wifi_state, arg)

C11_Witness ==
  /\ op = "WiFiStatusCheck" /\ reconciled
  /\ arg = WL_CONNECTED /\ stepLog = <<>>
  /\ wifi_state = STATE_CONN
\* C12: start_WiFi subscribes the callback before it issues the connection
\* attempt, issues exactly one begin-connection request and no other
\* control request, and leaves the state alone; no event is in flight
\* while no callback is subscribed.
C12_StartWiFi ==
  /\ [](queue # <<>> => registered)
  /\ [][op' = "start_WiFi" =>
          /\ FirstIndex(stepLog', "WiFi.onEvent") > 0
          /\ FirstIndex(stepLog', "WiFi.onEvent") <
                FirstIndex(stepLog', "WiFi.begin")
          /\ Requests(stepLog') = <<"WiFi.begin">>
          /\ nBegin' = nBegin + 1
          /\ registered'
          /\ UNCHANGED <<wifi_state, nReconnect, nDisable, wps_enabled>>]_vars

C12_Witness ==
  /\ op = "start_WiFi" /\ registered
  /\ nBegin = 1
  /\ pre = STATE_WPS /\ wifi_state = STATE_WPS

\* the state and the cached status after a poll that reads now
AfterPoll(state, cached, now) ==
  LET steps == WiFiStatusCheckSteps(now, cached)
  IN <<StateAfter(steps, state),
       IF Has(steps, "last=now") THEN now ELSE cached>>

\* the states one more operation can leave, from the state and cache given
OneStep(state, cached) ==
  {StateAfter(WiFiEventSteps(e), state) : e \in Events}
    \cup {StateAfter(start_WPS_Steps, state)}
    \cup {AfterPoll(state, cached, now)[1] : now \in WlStatus}

\* the states one or two more operations can leave, the first one a poll
StillReachable ==
  OneStep(wifi_state, last) \cup
    UNION {OneStep(AfterPoll(wifi_state, last, now)[1],
                   AfterPoll(wifi_state, last, now)[2]) : now \in WlStatus}

\* C13: the state starts as Disconnected and no state is terminal: in every
\* reachable state every event kind, a poll of every status and start_WPS
\* can be handled and leave a proper state, and Disconnected, Provisioning
\* and Connected can all still be reached.
C13_NoTerminalState ==
  /\ op = "init" => wifi_state = STATE_DISC
  /\ \A e \in Events :
       StateAfter(WiFiEventSteps(e), wifi_state)
         \in {STATE_DISC, STATE_WPS, STATE_CONN}
  /\ queue # <<>> => ENABLED WiFiEvent
  /\ ENABLED start_WPS
  /\ \A now \in WlStatus : ENABLED WiFiStatusCheck(now)
  /\ {STATE_DISC, STATE_WPS, STATE_CONN} \subseteq StillReachable

C13_Witness ==
  /\ op = "start_WPS"
  /\ wifi_state = STATE_WPS /\ last = WL_CONNECTED
  /\ nDisable >= 1

\* the effects that precede the first occurrence of x
Before(steps, x) == SubSeq(steps, 1, FirstIndex(steps, x) - 1)

\* C14: in every recovery path the corrective request comes last: for
\* link-lost the state is Disconnected before the pause and the pause
\* precedes the reconnect request; for each provisioning outcome the
\* disable call precedes the begin request and the state is Disconnected
\* when begin is issued.
C14_RequestLast ==
  /\ (op = "WiFiEvent" /\ arg = STA_DISCONNECTED) =>
       /\ stepLog[Len(stepLog)] = "WiFi.reconnect"
       /\ FirstIndex(stepLog, "delay") > 0
       /\ FirstIndex(stepLog, "delay") < FirstIndex(stepLog, "WiFi.reconnect")
       /\ Has(Before(stepLog, "delay"), SetState(STATE_DISC))
       /\ StateAfter(Before(stepLog, "delay"), pre) = STATE_DISC
  /\ (op = "WiFiEvent" /\ arg \in WpsOutcomes) =>
       /\ stepLog[Len(stepLog)] = "WiFi.begin"
       /\ FirstIndex(stepLog, "esp_wifi_wps_disable") > 0
       /\ FirstIndex(stepLog, "esp_wifi_wps_disable") <
             FirstIndex(stepLog, "WiFi.begin")
       /\ Has(Before(stepLog, "WiFi.begin"), SetState(STATE_DISC))
       /\ StateAfter(Before(stepLog, "WiFi.begin"), pre) = STATE_DISC

C14_Witness ==
  /\ op = "WiFiEvent" /\ arg = WPS_ER_FAILED
  /\ pre = STATE_WPS
  /\ stepLog[Len(stepLog)] = "WiFi.begin"

\* C15: handling interface-started or address-acquired, and every poll,
\* issues no control request; so reconnect requests equal link-lost events
\* handled, disable calls equal outcome events handled, and begin requests
\* equal outcome events handled plus calls of start_WiFi.
C15_RequestCounts ==
  /\ [](/\ nReconnect = nLinkLost
        /\ nDisable = nOutcome
        /\ nBegin = nOutcome + nStartWiFi)
  /\ [][(Handled({STA_START, STA_GOT_IP}) \/ op' = "WiFiStatusCheck") =>
          (Requests(stepLog') = <<>> /\ NoSubsystemChange)]_vars

C15_Witness ==
  /\ nLinkLost = 1 /\ nOutcome = 1 /\ nStartWiFi = 1
  /\ nReconnect = 1 /\ nDisable = 1 /\ nBegin = 2
\* the state after the whole poll and then the whole handler
PollThenEvent ==
  StateAfter(WiFiEventSteps(RaceEventKind), StateAfter(stepLog, raceStart))

\* the state after the whole handler and then the whole poll
EventThenPoll ==
  StateAfter(stepLog, StateAfter(WiFiEventSteps(RaceEventKind), raceStart))

\* C16: with atomic reads and writes of the state, every interleaving of
\* the statements of one poll with those of one handler call ends in the
\* state that one of the two serial orders of the poll and the handler
\* produces.
C16_Serializable ==
  RaceDone => wifi_state \in {PollThenEvent, EventThenPoll}

C16_Witness ==
  /\ RaceDone
  /\ raceStart = STATE_WPS
  /\ RaceEventKind = STA_GOT_IP
  /\ arg = "WL_DISCONNECTED" /\ last = "WL_DISCONNECTED"
  /\ wifi_state = STATE_CONN
\* C17 as stated: while provisioning is enabled (from the return of
\* start_WPS until an outcome event is handled) the state is Provisioning.
C17_Original == wps_enabled => wifi_state = STATE_WPS

\* C17 as amended: while provisioning is in progress the state stays
\* Provisioning across unrecognized events, polls that read the cached
\* status, start_WiFi and start_WPS; interface-started and link-lost set
\* it to Disconnected, address-acquired to Connected and a poll that reads
\* a new status to Connected or Disconnected, provisioning still enabled.
C17_Amended ==
  [][(wps_enabled /\ wifi_state = STATE_WPS) =>
       /\ (\/ Handled(Events \ Recognized)
           \/ (op' = "WiFiStatusCheck" /\ arg' = last)
           \/ op' \in {"emit", "start_WiFi", "start_WPS"}) =>
            (wifi_state' = STATE_WPS /\ wps_enabled')
       /\ Handled({STA_START, STA_DISCONNECTED}) =>
            (wifi_state' = STATE_DISC /\ wps_enabled')
       /\ Handled({STA_GOT_IP}) =>
            (wifi_state' = STATE_CONN /\ wps_enabled')
       /\ (op' = "WiFiStatusCheck" /\ arg' # last) =>
            (wifi_state' \in {STATE_DISC, STATE_CONN} /\ wps_enabled')]_vars

C17_Witness ==
  /\ op = "WiFiEvent" /\ arg = STA_START
  /\ pre = STATE_WPS /\ wifi_state = STATE_DISC
  /\ wps_enabled

\* C18: whenever the state is Provisioning, provisioning has been enabled
\* by start_WPS and not disabled since; and only start_WPS enters
\* Provisioning.
C18_WpsActive ==
  /\ [](wifi_state = STATE_WPS =>
          (wps_enabled /\ wps_config = FilledWpsConfig))
  /\ [][(wifi_state' = STATE_WPS /\ wifi_state # STATE_WPS) =>
          op' = "start_WPS"]_vars

C18_Witness ==
  /\ wifi_state = STATE_WPS /\ wps_enabled
  /\ nDisable >= 1
  /\ op = "WiFiStatusCheck"

\* C19: the cached status starts as WL_NO_SHIELD, is changed by no
\* operation but the poll, equals the status read whenever a poll has
\* returned, and changes in exactly the polls that write the state.
C19_CachePrivate ==
  /\ [](/\ op = "init" => last = WL_NO_SHIELD
        /\ op = "WiFiStatusCheck" => last = arg)
  /\ [][/\ op' # "WiFiStatusCheck" => last' = last
        /\ op' = "WiFiStatusCheck" => (last' # last <=> WritesState)]_vars

C19_Witness ==
  /\ op = "WiFiStatusCheck" /\ arg = "WL_IDLE_STATUS"
  /\ last = "WL_IDLE_STATUS"
  /\ nLinkLost >= 1 /\ wps_enabled

\* the label the claim gives for each state
ExpectedLabel(s) ==
  CASE s = STATE_DISC -> "disc"
    [] s = STATE_WPS -> "WPS"
    [] s = STATE_CONN -> "conn"
    [] s = STATE_FAIL -> "fail"

\* C20: the state is always an index 0..3 of the four-entry label table,
\* the label read for a state is the one for that state, and distinct
\* states have distinct labels.
C20_LabelDefined ==
  /\ wifi_state \in 0..3
  /\ Len(wifi_state_str) = 4
  /\ wifi_state + 1 \in DOMAIN wifi_state_str
  /\ StateLabel(wifi_state) = ExpectedLabel(wifi_state)
  /\ \A s \in States : StateLabel(s) = ExpectedLabel(s)
  /\ \A s, t \in States : s # t => StateLabel(s) # StateLabel(t)

C20_Witness ==
  /\ wifi_state = STATE_CONN
  /\ StateLabel(wifi_state) = "conn"
  /\ op = "WiFiEvent"
====
